---- MODULE Spec2Model ----
(***************************************************************************)
(* Model of diagnostic/relay/relay_switcher.py: the relay exercise loop.   *)
(*                                                                         *)
(* The program is sequential.  A state of the model is the position of the *)
(* program at one of its blocking points (a control request in flight, a   *)
(* status request in flight, a timed wait, a status display) together with *)
(* the locals that decide what it does next.  A step is the end of that    *)
(* blocking call: a response, an exception, the end of the wait, or a      *)
(* KeyboardInterrupt raised by the operator's Ctrl+C.                      *)
(*                                                                         *)
(* Strings whose characters matter (appliance names, which are compared    *)
(* through str.lower) are sequences of one-character strings.              *)
(* Temperatures are in tenths of a degree (-127.0 is -1270).               *)
(* The device is the external collaborator: its answers are the inputs,    *)
(* drawn from the sets below; a 200 status answer carries either a body    *)
(* that is not JSON, an empty object, or a snapshot of the documented      *)
(* shape with or without its optional keys.                                *)
(***************************************************************************)
EXTENDS Integers, Sequences, FiniteSets, TLC

(* ------------------------------ bounds -------------------------------- *)

\* cycles a continuous or toggle run may start before the model stops it
MaxCycles == 2

\* KeyboardInterrupts the operator may raise during one run
MaxInterrupts == 2

(* --------------------------- configuration ---------------------------- *)

TIMEOUT_MINUTES == 5

APPLIANCES ==
  << <<"F","i","l","t","e","r">>,
     <<"C","O","2">>,
     <<"L","i","g","h","t">>,
     <<"H","e","a","t","e","r">>,
     <<"H","a","n","g","O","n","F","i","l","t","e","r">>,
     <<"W","a","v","e","M","a","k","e","r">> >>

N == Len(APPLIANCES)

Range(s) == {s[k] : k \in DOMAIN s}

(* ------------------------------ str.lower ----------------------------- *)

UpperCase == <<"A","B","C","D","E","F","G","H","I","J","K","L","M",
               "N","O","P","Q","R","S","T","U","V","W","X","Y","Z">>

LowerCase == <<"a","b","c","d","e","f","g","h","i","j","k","l","m",
               "n","o","p","q","r","s","t","u","v","w","x","y","z">>

LowerChar(c) ==
  IF c \in Range(UpperCase)
  THEN LowerCase[CHOOSE k \in DOMAIN UpperCase : UpperCase[k] = c]
  ELSE c

\* the comparison without the two .lower() calls: a case-sensitive match
lower_identity(s) == s

lower(s) == [k \in DOMAIN s |-> LowerChar(s[k])]

(* ------------------------------ payloads ------------------------------ *)

Entry(name, action) ==
  [name |-> name, action |-> action, timeout_minutes |-> TIMEOUT_MINUTES]

\* turn_all_off with the comprehension over APPLIANCES[1:]: the first
\* appliance is left out of the payload
turn_all_off_skipping_first ==
  [k \in 1 .. (Len(APPLIANCES) - 1) |-> Entry(APPLIANCES[k + 1], "OFF")]

\* turn_all_off, lines 44-49: the payload it builds
turn_all_off_payload ==
  [k \in DOMAIN APPLIANCES |-> Entry(APPLIANCES[k], "OFF")]

\* "appliance_name in appliance" (substring) instead of "==": Filter also
\* switches HangOnFilter on
IsSubstring(a, b) ==
  \E d \in 0 .. (Len(b) - Len(a)) : \A k \in DOMAIN a : b[d + k] = a[k]

turn_on_single_substring(appliance_name) ==
  [k \in DOMAIN APPLIANCES |->
     Entry(APPLIANCES[k],
           IF IsSubstring(appliance_name, APPLIANCES[k]) THEN "ON" ELSE "OFF")]

\* "!=" instead of "==": every appliance but the named one is switched on
turn_on_single_inverted(appliance_name) ==
  [k \in DOMAIN APPLIANCES |->
     Entry(APPLIANCES[k],
           IF APPLIANCES[k] # appliance_name THEN "ON" ELSE "OFF")]

\* turn_on_single, lines 54-59: the payload it builds
turn_on_single_payload(appliance_name) ==
  [k \in DOMAIN APPLIANCES |->
     Entry(APPLIANCES[k],
           IF APPLIANCES[k] = appliance_name THEN "ON" ELSE "OFF")]

\* single_appliance_mode, lines 240-245: the ON payload built inline
toggle_on_payload(appliance_name) ==
  [k \in DOMAIN APPLIANCES |->
     Entry(APPLIANCES[k],
           IF APPLIANCES[k] = appliance_name THEN "ON" ELSE "OFF")]

\* single_appliance_mode, lines 260-265: the OFF payload built inline
toggle_off_payload ==
  [k \in DOMAIN APPLIANCES |-> Entry(APPLIANCES[k], "OFF")]

\* no payload
NoPayload == <<>>

OnCount(payload) == Cardinality({k \in DOMAIN payload : payload[k].action = "ON"})

IsAllOff(payload) == \A k \in DOMAIN payload : payload[k].action = "OFF"

(* ------------------------- the device's answers ----------------------- *)

\* what requests.post / requests.get can end with, a KeyboardInterrupt aside
Response(code) == [kind |-> "response", status_code |-> code]
ConnectionError == [kind |-> "ConnectionError", status_code |-> 0]
Timeout == [kind |-> "Timeout", status_code |-> 0]
OtherException == [kind |-> "Exception", status_code |-> 0]

ControlOutcomes ==
  {Response(200), Response(204), Response(401), Response(500),
   ConnectionError, Timeout, OtherException}

\* a temperature_celsius value: a number (in tenths), a string, or no key
Temp(kind, tenths) == [kind |-> kind, tenths |-> tenths]
NoTemp == Temp("absent", 0)
TempValues ==
  {NoTemp, Temp("str", 0), Temp("num", -1270), Temp("num", -1269), Temp("num", 253)}

\* the value get_status returns: None, or the decoded body of a 200 answer,
\* which is an empty object or a snapshot
Status(kind, temp, has_appliances) ==
  [kind |-> kind, temp |-> temp, has_appliances |-> has_appliances]
None == Status("None", NoTemp, FALSE)
EmptyObject == Status("empty", NoTemp, FALSE)
Snapshots ==
  {Status("data", t, a) : t \in TempValues, a \in BOOLEAN}
    \ {Status("data", NoTemp, FALSE)}

\* what GET /status can end with: an answer with a status code and a body
\* (decoded, or "invalid" when it is not JSON), or an exception
StatusAnswer(outcome, body_ok, body) ==
  [outcome |-> outcome, body_ok |-> body_ok, body |-> body]
StatusOutcomes ==
  {StatusAnswer(Response(200), TRUE, b) : b \in Snapshots \cup {EmptyObject}}
    \cup {StatusAnswer(Response(200), FALSE, None)}
    \cup {StatusAnswer(o, FALSE, None) :
            o \in {Response(500), ConnectionError, Timeout, OtherException}}

\* send_control_command did not return in the step just taken
NoSend == [outcome |-> [kind |-> "none", status_code |-> 0], returned |-> FALSE]

\* requests.get was not called, or has not ended
NoAnswer == StatusAnswer([kind |-> "none", status_code |-> 0], FALSE, None)

\* requests.get was ended by the operator's KeyboardInterrupt
InterruptedAnswer ==
  StatusAnswer([kind |-> "KeyboardInterrupt", status_code |-> 0], FALSE, None)

\* Python truthiness of a get_status result ("if status:")
Truthy(s) == s.kind = "data"

(* --------------------------- pure functions --------------------------- *)

\* "response.ok" instead of "status_code == 200": any 2xx answer is a success
send_control_command_2xx(outcome) ==
  outcome.kind = "response" /\ outcome.status_code \in 200 .. 299

\* send_control_command, lines 69-98: its return value
send_control_command(outcome) ==
  outcome.kind = "response" /\ outcome.status_code = 200

\* send_control_command, lines 80-98: the line it prints
send_report(outcome) ==
  IF outcome.kind = "response"
  THEN IF outcome.status_code = 200 THEN "Success" ELSE "Failed (Status)"
  ELSE IF outcome.kind = "ConnectionError" THEN "Connection Error"
  ELSE IF outcome.kind = "Timeout" THEN "Timeout"
  ELSE "Error"

\* get_status, lines 104-116: its return value when requests.get ends with
\* answer a (response.json() raises on a body that is not JSON)
get_status(a) ==
  IF a.outcome.kind = "response"
  THEN IF a.outcome.status_code = 200
       THEN IF a.body_ok THEN a.body ELSE None
       ELSE None
  ELSE None

\* every reading below zero is taken for the sensor's error value
display_status_negative(status_data) ==
  IF ~Truthy(status_data) \/ ~status_data.has_appliances THEN "skipped"
  ELSE IF status_data.temp.kind = "num" /\ status_data.temp.tenths < 0
       THEN "SENSOR ERROR"
  ELSE IF status_data.temp.kind = "num" THEN "reading"
  ELSE "raw"

\* display_status, lines 120-132: what the temperature line shows
\* ("skipped": the early return of line 121)
display_status(status_data) ==
  IF ~Truthy(status_data) \/ ~status_data.has_appliances THEN "skipped"
  ELSE IF status_data.temp.kind = "num" /\ status_data.temp.tenths = -1270
       THEN "SENSOR ERROR"
  ELSE IF status_data.temp.kind = "num" THEN "reading"
  ELSE "raw"

\* main, lines 293-297: the configured name matching the argument, or "None"
RECURSIVE match_from(_, _)
match_from(k, appliance_name) ==
  IF k > N THEN <<>>
  ELSE IF lower(APPLIANCES[k]) = lower(appliance_name) THEN APPLIANCES[k]
  ELSE match_from(k + 1, appliance_name)

NoMatch == <<>>

matched(appliance_name) == match_from(1, appliance_name)

\* main, lines 290-321: the branch the command line selects
main_mode(argv) ==
  IF Len(argv) > 2 /\ argv[2] \in {"-a", "--appliance"}
  THEN IF matched(argv[3]) = NoMatch THEN "invalid" ELSE "toggle"
  ELSE IF Len(argv) > 1 /\ argv[2] \in {"-c", "--continuous"} THEN "continuous"
  ELSE "single"

(* -------------------------------- inputs ------------------------------ *)

\* names the operator may type after -a / --appliance
NameInputs ==
  { <<"F","i","l","t","e","r">>, <<"f","i","l","t","e","r">>,
    <<"F","I","L","T","E","R">>, <<"f","r","i","d","g","e">>,
    <<"c","o","2">>, <<"W","A","V","E","M","A","K","E","R">> }

\* sys.argv: the program name, then the arguments; the third element is a
\* name (a sequence of characters) wherever there is one
Script == "relay_switcher.py"
CommandLines ==
  { <<Script>>, <<Script, "-a">>, <<Script, "-c">>, <<Script, "--continuous">> }
    \cup { <<Script, f, n>> : f \in {"-a", "--appliance"}, n \in NameInputs }

(* -------------------------------- state ------------------------------- *)

VARIABLES
  sys_argv,     \* the command line
  pc,           \* the blocking point the program is at
  mode,         \* the branch main took: "none" before it dispatches
  target,       \* single_appliance_mode's appliance_name (NoMatch elsewhere)
  i,            \* run_test_cycle's loop index (1-based, as enumerate(.., 1))
  cycle_count,  \* continuous_mode's / single_appliance_mode's cycle_count
  status,       \* the value get_status returned, until it has been displayed
  shown,        \* what display_status showed in the step just taken
  report,       \* the line send_control_command printed in the step just taken
  log,          \* the control payloads issued so far, in order
  polls,        \* the number of status requests issued so far
  sent,         \* how requests.post ended in the step just taken, and what
                \* send_control_command returned
  answer,       \* how requests.get ended in the step just taken
  stale,        \* the control payload of the last request the client gave up
                \* on by its timeout, while the device may still handle it
  exit_code,    \* the process's exit code once pc = "exited" (-1 before)
  ended_by,     \* how the process ended: "return", "sys.exit", "KeyboardInterrupt"
  result,       \* the value the last run_test_cycle returned
  allOk,        \* history: every answer so far was a 200
  interrupts,   \* history: KeyboardInterrupts raised so far
  cyc           \* history of the current run_test_cycle call

vars == <<sys_argv, pc, mode, target, i, cycle_count, status, shown, report,
          sent, answer, stale, log, polls, exit_code, ended_by, result, allOk, interrupts, cyc>>

\* the blocking points of run_test_cycle, by kind
CycleSendPcs == {"cycle_init_off", "on_send", "final_off"}
CycleSleepPcs == {"cycle_sleep_a", "cycle_sleep_b", "on_skip_sleep", "on_sleep",
                  "on_wait", "final_sleep"}
CycleStatusPcs == {"cycle_status_a", "on_status", "final_status"}
CycleDisplayPcs == {"cycle_display_a", "on_display", "final_display"}
CyclePcs == CycleSendPcs \cup CycleSleepPcs \cup CycleStatusPcs \cup CycleDisplayPcs

\* the blocking points of single_appliance_mode's loop, by kind
ToggleSendPcs == {"toggle_on_send", "toggle_off_send"}
ToggleSleepPcs == {"toggle_on_sleep", "toggle_on_wait", "toggle_off_sleep",
                   "toggle_wait"}
ToggleStatusPcs == {"toggle_on_status", "toggle_off_status"}
ToggleDisplayPcs == {"toggle_on_display", "toggle_off_display"}
TogglePcs == ToggleSendPcs \cup ToggleSleepPcs \cup ToggleStatusPcs \cup ToggleDisplayPcs

StatusPcs == CycleStatusPcs \cup ToggleStatusPcs
CleanupPcs == {"cleanup_off", "toggle_cleanup_off"}

NewCycle == [log0 |-> Len(log), init |-> "pending", laterFail |-> FALSE,
             polled |-> FALSE]
NoCycle == [log0 |-> 0, init |-> "none", laterFail |-> FALSE, polled |-> FALSE]

Init ==
  /\ sys_argv \in CommandLines
  /\ pc = "start"
  /\ mode = "none"
  /\ target = NoMatch
  /\ i = 0
  /\ cycle_count = 0
  /\ status = None
  /\ shown = "nothing"
  /\ report = "nothing"
  /\ log = <<>>
  /\ polls = 0
  /\ sent = NoSend
  /\ answer = NoAnswer
  /\ stale = NoPayload
  /\ exit_code = -1
  /\ ended_by = "running"
  /\ result = "none"
  /\ allOk = TRUE
  /\ interrupts = 0
  /\ cyc = NoCycle

(* ------------------------- shared step fragments ---------------------- *)

\* the device serves its requests one at a time, in order: once it answers a
\* request it has dealt with every earlier one
still_pending(outcome, before) ==
  IF outcome.kind = "response" THEN NoPayload ELSE before

\* send_control_command, lines 73-78 and 93-95: requests.post gives up after
\* its timeout and nothing recalls the request, which the device may have
\* received and not yet handled; the model keeps the last such payload
abandoned(outcome, payload, before) ==
  IF outcome.kind = "Timeout" THEN payload ELSE still_pending(outcome, before)

\* a control answer arrived: what send_control_command prints, and the history
Answered(outcome) ==
  /\ report' = send_report(outcome)
  /\ sent' = [outcome |-> outcome, returned |-> send_control_command(outcome)]
  /\ stale' = abandoned(outcome, log[Len(log)], stale)
  /\ allOk' = (allOk /\ send_control_command(outcome))

\* run_test_cycle is entered: lines 157-160, up to the initial all-off request
BeginCycle ==
  /\ pc' = "cycle_init_off"
  /\ log' = Append(log, turn_all_off_payload)
  /\ cyc' = NewCycle
  /\ result' = "running"

\* the exit codes of main's two branches exchanged
cycle_exit_code_swapped(ret) == IF ret THEN 1 ELSE 0

\* continuous_mode without the "if not run_test_cycle(): break"
continues_after_always(ret) == TRUE

\* what the caller does with run_test_cycle's return value:
\* main, lines 312-321 (exit code), and continuous_mode, lines 211-217
cycle_exit_code(ret) == IF ret THEN 0 ELSE 1

continues_after(ret) == ret

ReturnFromCycle(ret) ==
  /\ result' = IF ret THEN "True" ELSE "False"
  /\ IF mode = "single"
     THEN /\ pc' = "exited"
          /\ exit_code' = cycle_exit_code(ret)
          /\ ended_by' = IF ret THEN "return" ELSE "sys.exit"
     ELSE IF continues_after(ret)
          THEN pc' = "between_sleep" /\ UNCHANGED <<exit_code, ended_by>>
          ELSE pc' = "exited" /\ exit_code' = 0 /\ ended_by' = "return"

\* the loop over APPLIANCES[:-1]: the last appliance is never tested
NextAppliance_off_by_one(k) ==
  IF k < N
  THEN /\ i' = k
       /\ pc' = "on_send"
       /\ log' = Append(log, turn_on_single_payload(APPLIANCES[k]))
  ELSE /\ i' = i
       /\ pc' = "final_off"
       /\ log' = Append(log, turn_all_off_payload)

\* the all-off of the previous appliance is fired without waiting for it, and
\* the next single-on is sent at once
NextAppliance_unawaited(k) ==
  IF k <= N
  THEN /\ i' = k
       /\ pc' = "on_send"
       /\ log' = log \o <<turn_all_off_payload,
                          turn_on_single_payload(APPLIANCES[k])>>
  ELSE /\ i' = i
       /\ pc' = "final_off"
       /\ log' = Append(log, turn_all_off_payload)

\* run_test_cycle, lines 172-190: the loop goes to appliance k, or past the
\* last one to the final all-off
NextAppliance(k) ==
  IF k <= N
  THEN /\ i' = k
       /\ pc' = "on_send"
       /\ log' = Append(log, turn_on_single_payload(APPLIANCES[k]))
  ELSE /\ i' = i
       /\ pc' = "final_off"
       /\ log' = Append(log, turn_all_off_payload)

\* "status = get_status(); if status: display_status(status)": where the
\* program is once get_status has returned s at status point p
\* ("return": run_test_cycle returns True, line 196)
DisplayPoint(p) ==
  CASE p = "cycle_status_a" -> "cycle_display_a"
    [] p = "on_status" -> "on_display"
    [] p = "final_status" -> "final_display"
    [] p = "toggle_on_status" -> "toggle_on_display"
    [] p = "toggle_off_status" -> "toggle_off_display"

AfterDisplay(p) ==
  CASE p \in {"cycle_status_a", "cycle_display_a"} -> "cycle_sleep_b"
    [] p \in {"on_status", "on_display"} -> "on_wait"
    [] p \in {"final_status", "final_display"} -> "return"
    [] p \in {"toggle_on_status", "toggle_on_display"} -> "toggle_on_wait"
    [] p \in {"toggle_off_status", "toggle_off_display"} -> "toggle_wait"

\* "if not status: return": a missing status ends the cycle or the pass
AfterStatus_abort(p, s) == IF Truthy(s) THEN DisplayPoint(p) ELSE "return"

AfterStatus(p, s) == IF Truthy(s) THEN DisplayPoint(p) ELSE AfterDisplay(p)

Resume(point) ==
  IF point = "return"
  THEN ReturnFromCycle(TRUE)
  ELSE pc' = point /\ UNCHANGED <<exit_code, ended_by, result>>

(* --------------------------------- main ------------------------------- *)

\* main, lines 307-312: no mode flag, one cycle
main_single ==
  /\ pc = "start"
  /\ main_mode(sys_argv) = "single"
  /\ mode' = "single"
  /\ BeginCycle
  /\ shown' = "nothing"
  /\ report' = "nothing"
  /\ sent' = NoSend
  /\ answer' = NoAnswer
  /\ UNCHANGED <<stale, sys_argv, target, i, cycle_count, status, polls, exit_code,
                 ended_by, allOk, interrupts>>

\* main, lines 305-306, and continuous_mode, lines 203-211: the first cycle
main_continuous ==
  /\ pc = "start"
  /\ main_mode(sys_argv) = "continuous"
  /\ mode' = "continuous"
  /\ cycle_count' = 1
  /\ BeginCycle
  /\ shown' = "nothing"
  /\ report' = "nothing"
  /\ sent' = NoSend
  /\ answer' = NoAnswer
  /\ UNCHANGED <<stale, sys_argv, target, i, status, polls, exit_code, ended_by,
                 allOk, interrupts>>

\* main, lines 290-303, and single_appliance_mode, lines 230-246: the first
\* ON request
main_toggle ==
  /\ pc = "start"
  /\ main_mode(sys_argv) = "toggle"
  /\ mode' = "toggle"
  /\ target' = matched(sys_argv[3])
  /\ cycle_count' = 1
  /\ pc' = "toggle_on_send"
  /\ log' = Append(log, toggle_on_payload(target'))
  /\ shown' = "nothing"
  /\ report' = "nothing"
  /\ sent' = NoSend
  /\ answer' = NoAnswer
  /\ UNCHANGED <<stale, sys_argv, i, status, polls, exit_code, ended_by, result,
                 allOk, interrupts, cyc>>

\* main, lines 299-302: the name matches no configured appliance
main_invalid ==
  /\ pc = "start"
  /\ main_mode(sys_argv) = "invalid"
  /\ mode' = "invalid"
  /\ pc' = "exited"
  /\ exit_code' = 1
  /\ ended_by' = "sys.exit"
  /\ shown' = "nothing"
  /\ report' = "nothing"
  /\ sent' = NoSend
  /\ answer' = NoAnswer
  /\ UNCHANGED <<stale, sys_argv, target, i, cycle_count, status, log, polls,
                 result, allOk, interrupts, cyc>>

(* ---------------------------- run_test_cycle -------------------------- *)

\* lines 160-164: the initial all-off answers
cycle_init_off_returns ==
  /\ pc = "cycle_init_off"
  /\ \E o \in ControlOutcomes :
       /\ Answered(o)
       /\ cyc' = [cyc EXCEPT !.init = IF send_control_command(o) THEN "ok" ELSE "failed"]
       /\ IF ~send_control_command(o)
          THEN ReturnFromCycle(FALSE)
          ELSE pc' = "cycle_sleep_a" /\ UNCHANGED <<exit_code, ended_by, result>>
  /\ shown' = "nothing"
  /\ answer' = NoAnswer
  /\ UNCHANGED <<sys_argv, mode, target, i, cycle_count, status, log, polls,
                 interrupts>>

\* lines 164-165, 180-181, 191-192: the wait before a status poll ends
cycle_settle_ends ==
  /\ pc \in {"cycle_sleep_a", "on_sleep", "final_sleep"}
  /\ pc' = CASE pc = "cycle_sleep_a" -> "cycle_status_a"
             [] pc = "on_sleep" -> "on_status"
             [] pc = "final_sleep" -> "final_status"
  /\ polls' = polls + 1
  /\ cyc' = [cyc EXCEPT !.polled = TRUE]
  /\ shown' = "nothing"
  /\ report' = "nothing"
  /\ sent' = NoSend
  /\ answer' = NoAnswer
  /\ UNCHANGED <<stale, sys_argv, mode, target, i, cycle_count, status, log,
                 exit_code, ended_by, result, allOk, interrupts>>

\* lines 165-166, 181-182, 192-193: get_status returns
cycle_status_returns ==
  /\ pc \in CycleStatusPcs
  /\ \E a \in StatusOutcomes :
       /\ answer' = a
       /\ stale' = still_pending(a.outcome, stale)
       /\ status' = get_status(a)
       /\ allOk' = (allOk /\ send_control_command(a.outcome))
       /\ Resume(AfterStatus(pc, status'))
  /\ shown' = "nothing"
  /\ report' = "nothing"
  /\ sent' = NoSend
  /\ UNCHANGED <<sys_argv, mode, target, i, cycle_count, log, polls,
                 interrupts, cyc>>

\* lines 167, 183, 194: display_status
cycle_display ==
  /\ pc \in CycleDisplayPcs
  /\ shown' = display_status(status)
  /\ status' = None
  /\ Resume(AfterDisplay(pc))
  /\ report' = "nothing"
  /\ sent' = NoSend
  /\ answer' = NoAnswer
  /\ UNCHANGED <<stale, sys_argv, mode, target, i, cycle_count, log, polls, allOk,
                 interrupts, cyc>>

\* lines 169-175: the 2-unit wait ends, the loop starts
cycle_sleep_b_ends ==
  /\ pc = "cycle_sleep_b"
  /\ NextAppliance(1)
  /\ shown' = "nothing"
  /\ report' = "nothing"
  /\ sent' = NoSend
  /\ answer' = NoAnswer
  /\ UNCHANGED <<stale, sys_argv, mode, target, cycle_count, status, polls,
                 exit_code, ended_by, result, allOk, interrupts, cyc>>

\* the result of turn_on_single is not looked at: the appliance is observed
\* and polled whether or not its single-on succeeded
on_send_unchecked ==
  /\ pc = "on_send"
  /\ \E o \in ControlOutcomes :
       /\ Answered(o)
       /\ cyc' = [cyc EXCEPT !.laterFail = @ \/ ~send_control_command(o)]
  /\ pc' = "on_sleep"
  /\ shown' = "nothing"
  /\ answer' = NoAnswer
  /\ UNCHANGED <<sys_argv, mode, target, i, cycle_count, status, log, polls,
                 exit_code, ended_by, result, interrupts>>

\* lines 175-180: a single-on answers
on_send_returns ==
  /\ pc = "on_send"
  /\ \E o \in ControlOutcomes :
       /\ Answered(o)
       /\ cyc' = [cyc EXCEPT !.laterFail = @ \/ ~send_control_command(o)]
       /\ pc' = IF ~send_control_command(o) THEN "on_skip_sleep" ELSE "on_sleep"
  /\ shown' = "nothing"
  /\ answer' = NoAnswer
  /\ UNCHANGED <<sys_argv, mode, target, i, cycle_count, status, log, polls,
                 exit_code, ended_by, result, interrupts>>

\* the "continue" of a failed single-on also skips the appliance that follows
on_iteration_ends_skipping ==
  /\ pc \in {"on_skip_sleep", "on_wait"}
  /\ NextAppliance(IF pc = "on_skip_sleep" THEN i + 2 ELSE i + 1)
  /\ shown' = "nothing"
  /\ report' = "nothing"
  /\ sent' = NoSend
  /\ answer' = NoAnswer
  /\ UNCHANGED <<stale, sys_argv, mode, target, cycle_count, status, polls,
                 exit_code, ended_by, result, allOk, interrupts, cyc>>

\* lines 177-178 (continue) and 186: the wait that ends an iteration ends
on_iteration_ends ==
  /\ pc \in {"on_skip_sleep", "on_wait"}
  /\ NextAppliance(i + 1)
  /\ shown' = "nothing"
  /\ report' = "nothing"
  /\ sent' = NoSend
  /\ answer' = NoAnswer
  /\ UNCHANGED <<stale, sys_argv, mode, target, cycle_count, status, polls,
                 exit_code, ended_by, result, allOk, interrupts, cyc>>

\* "if not turn_all_off(): return False" at the end of the cycle as well
final_off_checked ==
  /\ pc = "final_off"
  /\ \E o \in ControlOutcomes :
       /\ Answered(o)
       /\ cyc' = [cyc EXCEPT !.laterFail = @ \/ ~send_control_command(o)]
       /\ IF ~send_control_command(o)
          THEN ReturnFromCycle(FALSE)
          ELSE pc' = "final_sleep" /\ UNCHANGED <<exit_code, ended_by, result>>
  /\ shown' = "nothing"
  /\ answer' = NoAnswer
  /\ UNCHANGED <<sys_argv, mode, target, i, cycle_count, status, log, polls,
                 interrupts>>

\* lines 190-191: the final all-off answers; its result is dropped
final_off_returns ==
  /\ pc = "final_off"
  /\ \E o \in ControlOutcomes :
       /\ Answered(o)
       /\ cyc' = [cyc EXCEPT !.laterFail = @ \/ ~send_control_command(o)]
  /\ pc' = "final_sleep"
  /\ shown' = "nothing"
  /\ answer' = NoAnswer
  /\ UNCHANGED <<sys_argv, mode, target, i, cycle_count, status, log, polls,
                 exit_code, ended_by, result, interrupts>>

(* ---------------------------- continuous_mode ------------------------- *)

\* lines 217, 205-211: the wait between cycles ends, the next cycle starts
between_sleep_ends ==
  /\ pc = "between_sleep"
  /\ cycle_count < MaxCycles
  /\ cycle_count' = cycle_count + 1
  /\ BeginCycle
  /\ shown' = "nothing"
  /\ report' = "nothing"
  /\ sent' = NoSend
  /\ answer' = NoAnswer
  /\ UNCHANGED <<stale, sys_argv, mode, target, i, status, polls, exit_code,
                 ended_by, allOk, interrupts>>

\* lines 222-223: the cleanup all-off answers; the mode returns, main ends
cleanup_off_returns ==
  /\ pc = "cleanup_off"
  /\ \E o \in ControlOutcomes : Answered(o)
  /\ pc' = "exited"
  /\ exit_code' = 0
  /\ ended_by' = "return"
  /\ shown' = "nothing"
  /\ answer' = NoAnswer
  /\ UNCHANGED <<sys_argv, mode, target, i, cycle_count, status, log, polls,
                 result, interrupts, cyc>>

(* -------------------------- single_appliance_mode --------------------- *)

\* the loop without its status polls: a successful send is followed by the
\* interval at once
toggle_after_send_unpolled(p, ok) ==
  IF ~ok THEN "break"
  ELSE IF p = "toggle_on_send" THEN "toggle_on_wait" ELSE "toggle_wait"

\* lines 246-250 and 266-270: where the loop is after a send that returned ok
\* ("break": the loop is left, the mode returns)
toggle_after_send(p, ok) ==
  IF ~ok THEN "break"
  ELSE IF p = "toggle_on_send" THEN "toggle_on_sleep" ELSE "toggle_off_sleep"

\* lines 246-250, 266-270: the ON or the OFF request answers
toggle_send_returns ==
  /\ pc \in ToggleSendPcs
  /\ \E o \in ControlOutcomes :
       /\ Answered(o)
       /\ IF toggle_after_send(pc, send_control_command(o)) = "break"
          THEN pc' = "exited" /\ exit_code' = 0 /\ ended_by' = "return"
          ELSE /\ pc' = toggle_after_send(pc, send_control_command(o))
               /\ UNCHANGED <<exit_code, ended_by>>
  /\ shown' = "nothing"
  /\ answer' = NoAnswer
  /\ UNCHANGED <<sys_argv, mode, target, i, cycle_count, status, log, polls,
                 result, interrupts, cyc>>

\* lines 250-251, 270-271: the wait before a status poll ends
toggle_settle_ends ==
  /\ pc \in {"toggle_on_sleep", "toggle_off_sleep"}
  /\ pc' = IF pc = "toggle_on_sleep" THEN "toggle_on_status" ELSE "toggle_off_status"
  /\ polls' = polls + 1
  /\ shown' = "nothing"
  /\ report' = "nothing"
  /\ sent' = NoSend
  /\ answer' = NoAnswer
  /\ UNCHANGED <<stale, sys_argv, mode, target, i, cycle_count, status, log,
                 exit_code, ended_by, result, allOk, interrupts, cyc>>

\* lines 251-252, 271-272: get_status returns
toggle_status_returns ==
  /\ pc \in ToggleStatusPcs
  /\ \E a \in StatusOutcomes :
       /\ answer' = a
       /\ stale' = still_pending(a.outcome, stale)
       /\ status' = get_status(a)
       /\ allOk' = (allOk /\ send_control_command(a.outcome))
       /\ Resume(AfterStatus(pc, status'))
  /\ shown' = "nothing"
  /\ report' = "nothing"
  /\ sent' = NoSend
  /\ UNCHANGED <<sys_argv, mode, target, i, cycle_count, log, polls,
                 interrupts, cyc>>

\* lines 253, 273: display_status
toggle_display ==
  /\ pc \in ToggleDisplayPcs
  /\ shown' = display_status(status)
  /\ status' = None
  /\ Resume(AfterDisplay(pc))
  /\ report' = "nothing"
  /\ sent' = NoSend
  /\ answer' = NoAnswer
  /\ UNCHANGED <<stale, sys_argv, mode, target, i, cycle_count, log, polls, allOk,
                 interrupts, cyc>>

\* lines 256-266: the ON interval ends, the OFF request is sent
toggle_on_wait_ends ==
  /\ pc = "toggle_on_wait"
  /\ pc' = "toggle_off_send"
  /\ log' = Append(log, toggle_off_payload)
  /\ shown' = "nothing"
  /\ report' = "nothing"
  /\ sent' = NoSend
  /\ answer' = NoAnswer
  /\ UNCHANGED <<stale, sys_argv, mode, target, i, cycle_count, status, polls,
                 exit_code, ended_by, result, allOk, interrupts, cyc>>

\* lines 277, 232-246: the 3-unit wait ends, the next ON request is sent
toggle_wait_ends ==
  /\ pc = "toggle_wait"
  /\ cycle_count < MaxCycles
  /\ cycle_count' = cycle_count + 1
  /\ pc' = "toggle_on_send"
  /\ log' = Append(log, toggle_on_payload(target))
  /\ shown' = "nothing"
  /\ report' = "nothing"
  /\ sent' = NoSend
  /\ answer' = NoAnswer
  /\ UNCHANGED <<stale, sys_argv, mode, target, i, status, polls, exit_code,
                 ended_by, result, allOk, interrupts, cyc>>

\* lines 282-283: the cleanup all-off answers; the mode returns, main ends
toggle_cleanup_returns ==
  /\ pc = "toggle_cleanup_off"
  /\ \E o \in ControlOutcomes : Answered(o)
  /\ pc' = "exited"
  /\ exit_code' = 0
  /\ ended_by' = "return"
  /\ shown' = "nothing"
  /\ answer' = NoAnswer
  /\ UNCHANGED <<sys_argv, mode, target, i, cycle_count, status, log, polls,
                 result, interrupts, cyc>>

(* --------------------------- KeyboardInterrupt ------------------------ *)

\* get_status with "except Exception:" in place of its bare "except:": a
\* KeyboardInterrupt passes through it to the handler of the mode, if any
handler_except_exception(p, m) ==
  IF m = "continuous" /\ p \in CyclePcs \cup {"between_sleep"}
  THEN "continuous_mode"
  ELSE IF m = "toggle" /\ p \in TogglePcs THEN "single_appliance_mode"
  ELSE "none"

\* run_test_cycle guarded by the handler of continuous_mode in single-cycle
\* mode as well
handler_single_guarded(p, m) ==
  IF p \in StatusPcs THEN "get_status"
  ELSE IF m \in {"continuous", "single"} /\ p \in CyclePcs \cup {"between_sleep"}
       THEN "continuous_mode"
  ELSE IF m = "toggle" /\ p \in TogglePcs THEN "single_appliance_mode"
  ELSE "none"

\* the except clause that catches a KeyboardInterrupt raised while the program
\* in mode m is at point p: get_status's bare except (line 115), the handler
\* of continuous_mode (line 219) or of single_appliance_mode (line 279), or
\* none ("except Exception", line 96, does not catch a KeyboardInterrupt)
handler(p, m) ==
  IF p \in StatusPcs THEN "get_status"
  ELSE IF m = "continuous" /\ p \in CyclePcs \cup {"between_sleep"}
       THEN "continuous_mode"
  ELSE IF m = "toggle" /\ p \in TogglePcs THEN "single_appliance_mode"
  ELSE "none"

\* the exit status of a Python process ended by an uncaught KeyboardInterrupt:
\* 1, or 130 when the interpreter re-raises SIGINT (Python 3.8 and later)
UncaughtExitCodes == {1, 130}

Raised ==
  /\ pc \notin {"start", "exited"}
  /\ interrupts < MaxInterrupts
  /\ interrupts' = interrupts + 1

\* lines 115-116: raised inside requests.get, caught by the bare except
interrupt_in_get_status ==
  /\ Raised
  /\ handler(pc, mode) = "get_status"
  /\ answer' = InterruptedAnswer
  /\ status' = get_status(answer')
  /\ Resume(AfterStatus(pc, status'))
  /\ shown' = "nothing"
  /\ report' = "nothing"
  /\ sent' = NoSend
  /\ UNCHANGED <<stale, sys_argv, mode, target, i, cycle_count, log, polls, allOk,
                 cyc>>

\* lines 219-222: caught by continuous_mode, which sends the cleanup all-off
interrupt_in_continuous ==
  /\ Raised
  /\ handler(pc, mode) = "continuous_mode"
  /\ pc' = "cleanup_off"
  /\ log' = Append(log, turn_all_off_payload)
  /\ shown' = "nothing"
  /\ report' = "nothing"
  /\ sent' = NoSend
  /\ answer' = NoAnswer
  /\ UNCHANGED <<stale, sys_argv, mode, target, i, cycle_count, status, polls,
                 exit_code, ended_by, result, allOk, cyc>>

\* lines 279-282: caught by single_appliance_mode, which sends the cleanup
interrupt_in_toggle ==
  /\ Raised
  /\ handler(pc, mode) = "single_appliance_mode"
  /\ pc' = "toggle_cleanup_off"
  /\ log' = Append(log, turn_all_off_payload)
  /\ shown' = "nothing"
  /\ report' = "nothing"
  /\ sent' = NoSend
  /\ answer' = NoAnswer
  /\ UNCHANGED <<stale, sys_argv, mode, target, i, cycle_count, status, polls,
                 exit_code, ended_by, result, allOk, cyc>>

\* no handler: the traceback is printed and the process ends
interrupt_uncaught ==
  /\ Raised
  /\ handler(pc, mode) = "none"
  /\ pc' = "exited"
  /\ exit_code' \in UncaughtExitCodes
  /\ ended_by' = "KeyboardInterrupt"
  /\ shown' = "nothing"
  /\ report' = "nothing"
  /\ sent' = NoSend
  /\ answer' = NoAnswer
  /\ UNCHANGED <<stale, sys_argv, mode, target, i, cycle_count, status, log, polls,
                 result, allOk, cyc>>

(* ------------------------------- the device -------------------------- *)

\* the device handles, or drops, the request the client gave up on
device_handles_stale ==
  /\ stale # NoPayload
  /\ stale' = NoPayload
  /\ UNCHANGED <<sys_argv, pc, mode, target, i, cycle_count, status, shown,
                 report, sent, answer, log, polls, exit_code, ended_by, result,
                 allOk, interrupts, cyc>>

(* ----------------------------- specification -------------------------- *)

Next ==
  \/ main_single
  \/ main_continuous
  \/ main_toggle
  \/ main_invalid
  \/ cycle_init_off_returns
  \/ cycle_settle_ends
  \/ cycle_status_returns
  \/ cycle_display
  \/ cycle_sleep_b_ends
  \/ on_send_returns
  \/ on_iteration_ends
  \/ final_off_returns
  \/ between_sleep_ends
  \/ cleanup_off_returns
  \/ toggle_send_returns
  \/ toggle_settle_ends
  \/ toggle_status_returns
  \/ toggle_display
  \/ toggle_on_wait_ends
  \/ toggle_wait_ends
  \/ toggle_cleanup_returns
  \/ interrupt_in_get_status
  \/ interrupt_in_continuous
  \/ interrupt_in_toggle
  \/ interrupt_uncaught
  \/ device_handles_stale

Spec == Init /\ [][Next]_vars

(* -------------------------------- claims ------------------------------ *)

\* a step in which the operator's KeyboardInterrupt is raised
InterruptStep == interrupts' = interrupts + 1

LastSent == log[Len(log)]

\* the payload names every configured appliance once, in the configured order
NamesConfigured(payload) ==
  /\ Len(payload) = N
  /\ \A k \in 1 .. N : payload[k].name = APPLIANCES[k]

\* C1: in continuous mode, a KeyboardInterrupt raised at any point of a running
\* cycle (a control send, a status fetch, a wait) leads to exactly one further
\* control call, the all-off, after which the process ends with no other
\* control command.  Stated as the claim states it; it does not hold.
C1_InterruptOneAllOff ==
  [][ /\ (mode = "continuous" /\ pc \in CyclePcs /\ InterruptStep)
         => (pc' = "cleanup_off" /\ log' = Append(log, turn_all_off_payload))
      /\ (pc = "cleanup_off" /\ pc' # pc) => (pc' = "exited" /\ log' = log) ]_vars

\* C2: in toggle mode, a failed ON or OFF send aborts the mode and the all-off
\* cleanup is still sent before the mode returns; the same cleanup is sent
\* when the mode is interrupted.  Stated as the claim states it; it does not
\* hold.
C2_ToggleCleanupOnFailure ==
  [][ /\ (pc \in ToggleSendPcs /\ report' \notin {"nothing", "Success"})
         => (pc' = "toggle_cleanup_off" /\ log' = Append(log, turn_all_off_payload))
      /\ (mode = "toggle" /\ pc \in TogglePcs /\ InterruptStep)
         => (pc' = "toggle_cleanup_off"
             /\ log' = Append(log, turn_all_off_payload)) ]_vars

\* C3: every control payload sent, in any mode and after any sequence of
\* successes, failures and interrupts, has exactly one entry per configured
\* appliance and at most one entry whose action is ON.
C3_PayloadShape ==
  \A n \in DOMAIN log :
    /\ Len(log[n]) = N
    /\ \A a \in Range(APPLIANCES) :
         Cardinality({k \in DOMAIN log[n] : log[n][k].name = a}) = 1
    /\ OnCount(log[n]) <= 1

\* C3 witness: the interrupt cleanup has been sent in continuous mode after a
\* failed send, the single-on payloads of a cycle before it
C3_Witness ==
  /\ mode = "continuous"
  /\ pc = "cleanup_off"
  /\ ~allOk
  /\ cyc.laterFail
  /\ Len(log) > N

\* C4: single-on(X), for every configured X, builds a payload with exactly one
\* ON entry, the entry of X, and an OFF entry for every other configured name,
\* in the configured order.
C4_SingleOnPayload ==
  pc = "on_send" =>
    /\ NamesConfigured(LastSent)
    /\ \A k \in 1 .. N : LastSent[k].action = (IF k = i THEN "ON" ELSE "OFF")
    /\ OnCount(LastSent) = 1

\* C4 witness: single-on has been called for HangOnFilter, whose name contains
\* another configured name
C4_Witness ==
  /\ pc = "on_send"
  /\ i = 5
  /\ LastSent[5].action = "ON"

\* C5: all-off builds a payload with action OFF for every configured name,
\* whatever was sent before and whatever the device last reported.
C5_AllOffPayload ==
  pc \in {"cycle_init_off", "final_off", "cleanup_off", "toggle_cleanup_off"} =>
    /\ NamesConfigured(LastSent)
    /\ \A k \in 1 .. N : LastSent[k].action = "OFF"

\* C5 witness: all-off has been called as the cleanup right after a single-on
\* whose send failed
C5_Witness ==
  /\ pc = "cleanup_off"
  /\ Len(log) > 1
  /\ OnCount(log[Len(log) - 1]) = 1
  /\ ~allOk
  /\ IsAllOff(LastSent)

\* the single-on payloads of one cycle, in the configured order, are at
\* positions first + 1 .. first + N of the log, between two all-off payloads
IsFullCycle(first) ==
  /\ IsAllOff(log[first])
  /\ \A k \in 1 .. N : log[first + k] = turn_on_single_payload(APPLIANCES[k])
  /\ IsAllOff(log[first + N + 1])

\* C6: in single-cycle mode against a device that answers 200 to every control
\* call and every status call, the program issues exactly N+2 control calls
\* (all-off, N single-on, all-off) and at least N+2 status polls, and exits
\* with code 0.
C6_SingleCycleAllOk ==
  (mode = "single" /\ pc = "exited" /\ allOk /\ interrupts = 0) =>
    /\ Len(log) = N + 2
    /\ IsFullCycle(1)
    /\ polls >= N + 2
    /\ exit_code = 0

\* C6 witness: a single-cycle run has ended with every answer a 200
C6_Witness ==
  /\ mode = "single"
  /\ pc = "exited"
  /\ allOk
  /\ interrupts = 0
  /\ result = "True"

\* C7: run_test_cycle returns failure if and only if its initial all-off
\* fails, and then it has sent no further control command and no status poll;
\* a failed single-on or final all-off never makes it return failure.
C7_CycleFailsOnlyOnInitialAllOff ==
  /\ (result = "False") <=> (cyc.init = "failed")
  /\ (result = "False") => (Len(log) = cyc.log0 + 1 /\ ~cyc.polled)
  /\ (result = "True") => (cyc.init = "ok")

\* C7 witness: in continuous mode the second cycle has returned failure after a
\* first cycle that returned success
C7_Witness ==
  /\ mode = "continuous"
  /\ cycle_count = 2
  /\ result = "False"
  /\ cyc.init = "failed"
  /\ Len(log) = N + 3

\* the status fetch that ended with answer a failed: a non-200 answer, an
\* exception, or a body that is not JSON
FetchFailed(a) ==
  \/ a.outcome.kind # "response"
  \/ a.outcome.status_code # 200
  \/ ~a.body_ok

\* the step leaves the program at the given point ("return": run_test_cycle
\* has returned True to its caller)
At(point) ==
  IF point = "return"
  THEN result' = "True" /\ pc' \in {"exited", "between_sleep"}
  ELSE pc' = point

\* C8: a failed status fetch (non-200, connection error, timeout, any other
\* error) yields "no status" and never aborts the loop: the step that ends a
\* poll sends nothing, and the program then is where it is after a displayed
\* status, so the control commands are the same whether a poll succeeds or
\* fails.
C8_StatusFailureSwallowed ==
  [][ /\ (pc \in StatusPcs /\ answer' # NoAnswer) =>
           /\ log' = log
           /\ FetchFailed(answer') => (status' = None /\ At(AfterDisplay(pc)))
           /\ ~FetchFailed(answer') =>
                (pc' = DisplayPoint(pc) \/ At(AfterDisplay(pc)))
      /\ (pc \in CycleDisplayPcs \cup ToggleDisplayPcs /\ shown' # "nothing") =>
           (log' = log /\ At(AfterDisplay(pc))) ]_vars

\* C8 witness: in continuous mode the poll after a single-on timed out and the
\* cycle is in that appliance's observation interval
C8_Witness ==
  /\ mode = "continuous"
  /\ pc = "on_wait"
  /\ answer.outcome.kind = "Timeout"
  /\ status = None

\* C9: continuous mode repeats run_test_cycle until it is interrupted or a
\* cycle reports failure: after a cycle that reports success the next step is
\* the start of another cycle (or the interrupt), and when a cycle reports
\* failure the mode ends and no cycle is started.
C9_ContinuousRepeats ==
  [][ mode = "continuous" =>
        /\ (result # "True" /\ result' = "True") => pc' = "between_sleep"
        /\ (pc = "between_sleep" /\ pc' # pc) =>
             \/ InterruptStep /\ pc' = "cleanup_off"
             \/ /\ pc' = "cycle_init_off"
                /\ cycle_count' = cycle_count + 1
                /\ result' = "running"
        /\ (result # "False" /\ result' = "False") =>
             (pc' = "exited" /\ log' = log /\ cycle_count' = cycle_count)
        /\ (result = "False") => UNCHANGED <<pc, log, cycle_count>> ]_vars

\* C9 witness: a second cycle was started after a successful first one, it
\* reported failure, and the mode has ended
C9_Witness ==
  /\ mode = "continuous"
  /\ cycle_count = 2
  /\ result = "False"
  /\ pc = "exited"

\* the top-level single-cycle invocation failed, or the name was invalid
FailedRun == (mode = "single" /\ result = "False") \/ mode = "invalid"

\* C10 as stated: the process exits non-zero only when the top-level
\* single-cycle invocation fails or an invalid appliance name is supplied;
\* every other run exits 0.  It does not hold.
C10_NonZeroOnlyOnFailedRun ==
  (pc = "exited" /\ exit_code # 0) => FailedRun

\* C10, amended: the process exits non-zero only when the top-level
\* single-cycle invocation fails, an invalid appliance name is supplied, or a
\* KeyboardInterrupt reaches the top level uncaught; every other run,
\* including continuous or toggle mode stopped by a failure or by an interrupt
\* its handler catches, and a successful single cycle, exits 0.
C10_NonZeroOnlyOnFailedRunOrUncaught ==
  pc = "exited" =>
    /\ exit_code # 0 => (FailedRun \/ ended_by = "KeyboardInterrupt")
    /\ (~FailedRun /\ ended_by # "KeyboardInterrupt") => exit_code = 0

\* C10 witness: a single-cycle run ended by an uncaught KeyboardInterrupt
\* after its initial all-off had succeeded
C10_Witness ==
  /\ mode = "single"
  /\ pc = "exited"
  /\ ended_by = "KeyboardInterrupt"
  /\ cyc.init = "ok"
  /\ exit_code = 130

\* two strings are the same up to the case of their letters
SameLetter(c, d) ==
  \/ c = d
  \/ \E k \in DOMAIN UpperCase : {c, d} = {UpperCase[k], LowerCase[k]}

EqualIgnoringCase(a, b) ==
  /\ Len(a) = Len(b)
  /\ \A k \in DOMAIN a : SameLetter(a[k], b[k])

\* the command line asks for single-appliance mode with a name
AsksForAppliance ==
  Len(sys_argv) > 2 /\ sys_argv[2] \in {"-a", "--appliance"}

\* C11: the single-appliance argument is matched case-insensitively: every
\* casing of a configured name resolves to that configured entry, which is the
\* name the payloads use; a name not in the set yields exit code 1 with no
\* control call and no status poll.
C11_CaseInsensitiveMatch ==
  (AsksForAppliance /\ pc # "start") =>
    /\ mode \in {"toggle", "invalid"}
    /\ (mode = "toggle") <=>
         (\E a \in Range(APPLIANCES) : EqualIgnoringCase(a, sys_argv[3]))
    /\ (mode = "toggle") =>
         /\ target \in Range(APPLIANCES)
         /\ EqualIgnoringCase(target, sys_argv[3])
         /\ \A n \in DOMAIN log : \A k \in DOMAIN log[n] :
              log[n][k].action = "ON" => log[n][k].name = target
         /\ OnCount(log[1]) = 1
    /\ (mode = "invalid") =>
         (pc = "exited" /\ exit_code = 1 /\ log = <<>> /\ polls = 0)

\* C11 witness: FILTER was typed, and the ON request for Filter has been sent
C11_Witness ==
  /\ AsksForAppliance
  /\ sys_argv[3] = <<"F","I","L","T","E","R">>
  /\ mode = "toggle"
  /\ target = APPLIANCES[1]
  /\ log[1][1] = Entry(APPLIANCES[1], "ON")

\* C12: send_control_command reports success exactly when the answer's status
\* is 200; a non-200 answer, a connection error, a timeout and any other
\* exception each yield failure and are reported as four distinct outcomes, a
\* non-200 answer never as a connection error or as a timeout.
C12_SendClassification ==
  sent # NoSend =>
    LET o == sent.outcome IN
    /\ sent.returned <=> (o.kind = "response" /\ o.status_code = 200)
    /\ (report = "Success") <=> sent.returned
    /\ (report = "Failed (Status)") <=> (o.kind = "response" /\ o.status_code # 200)
    /\ (report = "Connection Error") <=> (o.kind = "ConnectionError")
    /\ (report = "Timeout") <=> (o.kind = "Timeout")
    /\ (report = "Error") <=> (o.kind = "Exception")
    /\ report \in {"Success", "Failed (Status)", "Connection Error", "Timeout",
                   "Error"}

\* C12 witness: a control request was answered 204, and send_control_command
\* reported a failure with the status
C12_Witness ==
  /\ sent.outcome = Response(204)
  /\ ~sent.returned
  /\ report = "Failed (Status)"

\* the points at which a control request, or any request, is in flight
ControlPcs == CycleSendPcs \cup ToggleSendPcs \cup CleanupPcs

RequestPcs == ControlPcs \cup StatusPcs

\* the requests issued so far
Issued == Len(log) + polls

\* C13 as stated: requests are strictly serialized, no two are outstanding at
\* once, so the device never has overlapping commands, also when a control
\* request was declared failed by the client's timeout and the next command
\* is then sent.  It does not hold: the timed-out command can still be
\* pending at the device.
C13_NoTwoOutstanding ==
  pc \in ControlPcs => stale = NoPayload

\* C13, amended: requests are strictly serialized at the client: a step issues
\* at most one request, a request is in flight exactly after a step that
\* issued one, and the step that issues the next one is the step in which the
\* previous one returned, raised or was interrupted.  (A command the client
\* gave up on by its timeout may still be pending at the device then.)
C13_ClientSerialized ==
  [][ pc' # pc =>
        /\ Issued' \in {Issued, Issued + 1}
        /\ SubSeq(log', 1, Len(log)) = log
        /\ (Issued' = Issued + 1) <=> (pc' \in RequestPcs)
        /\ (pc \in ControlPcs) => (sent' # NoSend \/ InterruptStep)
        /\ (pc \in StatusPcs) => (answer' # NoAnswer) ]_vars

\* C13 witness: single-on(CO2) is in flight while single-on(Filter), which
\* timed out at the client, may still be pending at the device
C13_Witness ==
  /\ pc = "on_send"
  /\ i = 2
  /\ stale = turn_on_single_payload(APPLIANCES[1])
  /\ LastSent = turn_on_single_payload(APPLIANCES[2])

\* display_status is called in this step, on the snapshot just fetched
DisplayStep == pc \in CycleDisplayPcs \cup ToggleDisplayPcs /\ shown' # "nothing"

\* the sensor's error value, -127.0
SensorError == Temp("num", -1270)

\* C14 as stated: whenever a fetched snapshot carries the temperature -127.0
\* the display flags a sensor error, and any other numeric temperature is
\* displayed as a plain reading.  It does not hold for a snapshot without an
\* "appliances" entry, which is not displayed at all.
C14_SensorErrorFlagged ==
  [][ DisplayStep =>
        /\ (status.temp = SensorError) => (shown' = "SENSOR ERROR")
        /\ (status.temp.kind = "num" /\ status.temp # SensorError)
             => (shown' = "reading") ]_vars

\* C14, amended: a fetched snapshot that has an "appliances" entry is flagged
\* as a sensor error exactly when its temperature is -127.0, and shown as a
\* plain reading exactly when its temperature is another number; a snapshot
\* without an "appliances" entry is not displayed, whatever its temperature.
C14_SensorErrorFlaggedIfAppliances ==
  [][ DisplayStep =>
        /\ Truthy(status)
        /\ (shown' = "SENSOR ERROR")
             <=> (status.has_appliances /\ status.temp = SensorError)
        /\ (shown' = "reading")
             <=> (/\ status.has_appliances
                  /\ status.temp.kind = "num"
                  /\ status.temp # SensorError)
        /\ (shown' = "skipped") <=> ~status.has_appliances ]_vars

\* C14 witness: the display that follows an appliance's single-on has just
\* flagged the sensor error
C14_Witness ==
  /\ shown = "SENSOR ERROR"
  /\ pc = "on_wait"
  /\ i = 2

\* the control commands of one whole cycle, in order
ExpectedCycle ==
  <<turn_all_off_payload>>
    \o [k \in 1 .. N |-> turn_on_single_payload(APPLIANCES[k])]
    \o <<turn_all_off_payload>>

\* the control commands of the cycle under way, or of the cycle just returned
CycleLog == SubSeq(log, cyc.log0 + 1, Len(log))

\* how many commands the cycle has sent when it is at its present point
CycleSent ==
  IF pc \in {"cycle_init_off", "cycle_sleep_a", "cycle_status_a",
             "cycle_display_a", "cycle_sleep_b"} THEN 1
  ELSE IF pc \in {"on_send", "on_skip_sleep", "on_sleep", "on_status",
                  "on_display", "on_wait"} THEN i + 1
  ELSE N + 2

\* C15: in every cycle whose initial all-off succeeds the control commands
\* are, in this order, the initial all-off, single-on for each configured
\* appliance exactly once in list order, and a final all-off, whatever
\* single-on sends or status polls fail: while the cycle runs its commands
\* are the first ones of that sequence, as many as its position tells, and
\* when it has returned they are the whole sequence.
C15_CycleCommandOrder ==
  /\ (pc \in CyclePcs) =>
       /\ Len(CycleLog) = CycleSent
       /\ CycleLog = SubSeq(ExpectedCycle, 1, CycleSent)
  /\ (pc \in CyclePcs /\ pc # "cycle_init_off") => (cyc.init = "ok")
  /\ (result = "True"
        /\ (pc = "between_sleep" \/ (pc = "exited" /\ mode = "single")))
       => (cyc.init = "ok" /\ CycleLog = ExpectedCycle)

\* C15 witness: the second cycle of continuous mode has returned after a
\* single-on or the final all-off failed in it
C15_Witness ==
  /\ mode = "continuous"
  /\ cycle_count = 2
  /\ pc = "between_sleep"
  /\ result = "True"
  /\ cyc.laterFail
  /\ CycleLog = ExpectedCycle

\* C16: within a cycle, when the single-on of an appliance fails, the status
\* poll and the observation interval of that appliance are skipped and the
\* cycle goes on to the next appliance of the list (to the final all-off
\* after the last one); a status poll is issued for an appliance only after
\* its single-on succeeded.
C16_FailedSingleOnSkipsPoll ==
  [][ /\ (pc = "on_send" /\ sent' # NoSend /\ ~sent'.returned)
           => (pc' = "on_skip_sleep" /\ polls' = polls /\ log' = log /\ i' = i)
      /\ (pc = "on_skip_sleep" /\ pc' # pc /\ ~InterruptStep)
           => /\ polls' = polls
              /\ Len(log') = Len(log) + 1
              /\ IF i < N
                 THEN /\ pc' = "on_send"
                      /\ i' = i + 1
                      /\ LastSent' = turn_on_single_payload(APPLIANCES[i + 1])
                 ELSE pc' = "final_off" /\ LastSent' = turn_all_off_payload
      /\ (pc' = "on_sleep" /\ pc' # pc)
           => (pc = "on_send" /\ sent'.returned /\ i' = i)
      /\ (pc' = "on_status" /\ pc' # pc)
           => (pc = "on_sleep" /\ polls' = polls + 1 /\ i' = i)
      /\ (pc \in {"on_send", "on_skip_sleep", "on_sleep"}
            /\ polls' # polls) => (pc = "on_sleep") ]_vars

\* C16 witness: the single-on of every appliance failed, and the cycle has
\* reached its final all-off with no status poll but the one that follows
\* the initial all-off
C16_Witness ==
  /\ mode = "single"
  /\ pc = "final_off"
  /\ Len(log) = N + 2
  /\ polls = 1
  /\ cyc.laterFail

\* the control commands sent by the loop of single_appliance_mode: the log
\* but for the cleanup all-off of the KeyboardInterrupt handler
LoopLog ==
  IF pc = "toggle_cleanup_off" THEN SubSeq(log, 1, Len(log) - 1) ELSE log

\* the points of the loop at which the status poll of the last command has
\* been issued
TogglePolledPcs ==
  ToggleStatusPcs \cup ToggleDisplayPcs \cup {"toggle_on_wait", "toggle_wait"}

\* C17: in toggle mode for appliance X the commands sent by the loop strictly
\* alternate single-on(X) and all-off, starting with single-on(X); each
\* successful command is followed by exactly one status poll before the next
\* command (every command but the last one was successful, a failed one ends
\* the loop); no appliance other than X is ever commanded ON.
C17_ToggleAlternates ==
  (mode = "toggle" /\ pc \in TogglePcs \cup {"toggle_cleanup_off"}) =>
    /\ Len(LoopLog) >= 1
    /\ \A k \in 1 .. Len(LoopLog) :
         LoopLog[k] = IF k % 2 = 1 THEN turn_on_single_payload(target)
                                   ELSE turn_all_off_payload
    /\ (pc \in TogglePcs) =>
         /\ Len(log) = IF pc \in {"toggle_on_send", "toggle_on_sleep",
                                  "toggle_on_status", "toggle_on_display",
                                  "toggle_on_wait"}
                       THEN 2 * cycle_count - 1 ELSE 2 * cycle_count
         /\ polls = IF pc \in TogglePolledPcs THEN Len(log) ELSE Len(log) - 1
    /\ polls \in {Len(LoopLog) - 1, Len(LoopLog)}
    /\ \A k \in 1 .. Len(log) : \A e \in 1 .. N :
         (log[k][e].action = "ON") => (log[k][e].name = target)

\* C17 witness: the second all-off of the loop for CO2 is in flight, after
\* three successful commands and their three status polls
C17_Witness ==
  /\ mode = "toggle"
  /\ target = APPLIANCES[2]
  /\ pc = "toggle_off_send"
  /\ cycle_count = 2
  /\ Len(log) = 4
  /\ polls = 3

\* C18: an interrupt delivered while a status fetch is in progress is
\* absorbed by get_status's catch-all handler and treated as a failed fetch:
\* get_status returns "no status", no cleanup all-off (no command at all) is
\* sent, and the program goes on where it goes after any failed fetch; if
\* that is the end of a single cycle, the process ends normally.
C18_InterruptInStatusAbsorbed ==
  [][ (pc \in StatusPcs /\ InterruptStep) =>
        /\ answer' = InterruptedAnswer
        /\ status' = None
        /\ log' = log
        /\ polls' = polls
        /\ pc' \notin CleanupPcs
        /\ At(AfterDisplay(pc))
        /\ (pc' = "exited") => (ended_by' = "return" /\ exit_code' = 0) ]_vars

\* C18 witness: in continuous mode an interrupt has ended the status fetch
\* of the second appliance, and the observation interval is under way
C18_Witness ==
  /\ mode = "continuous"
  /\ pc = "on_wait"
  /\ i = 2
  /\ answer = InterruptedAnswer
  /\ interrupts = 1
  /\ LastSent = turn_on_single_payload(APPLIANCES[2])

\* C19: in single-cycle mode an interrupt delivered during a control send or
\* a timed wait ends the process without any cleanup: no all-off is sent
\* after it, so the last command the device received may be a single-on.
C19_SingleCycleInterruptNoCleanup ==
  [][ (mode = "single" /\ pc \in CycleSendPcs \cup CycleSleepPcs
         /\ InterruptStep) =>
        /\ pc' = "exited"
        /\ ended_by' = "KeyboardInterrupt"
        /\ exit_code' \in UncaughtExitCodes
        /\ log' = log
        /\ polls' = polls ]_vars

\* C19 witness: the single cycle was ended by an interrupt, and the last
\* command sent switches the third appliance ON
C19_Witness ==
  /\ mode = "single"
  /\ pc = "exited"
  /\ ended_by = "KeyboardInterrupt"
  /\ interrupts = 1
  /\ LastSent = turn_on_single_payload(APPLIANCES[3])

====
